---- MODULE Spec2Model ----
(***************************************************************************)
(* Model of the chat server of src/src/server.js: the four socket handlers *)
(* (join, sendMessage, sendLocation, disconnect), the user registry of     *)
(* ./utils/users they call, and the socket.io rooms they emit to.          *)
(*                                                                         *)
(* Node runs each handler to completion on one thread, so a handler is one *)
(* atomic action.  What a handler does, in the order it does it, is kept   *)
(* in `out`.  Strings are sequences of one-character strings, so trimming  *)
(* and lower-casing are computed, not assumed.                             *)
(***************************************************************************)
EXTENDS Integers, Sequences, FiniteSets

VARIABLES
    sockets,   \* socket id -> "none" | "open" | "closed"
    users,     \* the registry of utils/users: a sequence of [id, username, room]
    rooms,     \* socket id -> the set of socket.io rooms the socket has joined
    last,      \* the inbound event handled last
    out,       \* what the handler of `last` did, in order
    crashed    \* an exception escaped a handler: the process is gone

vars == <<sockets, users, rooms, last, out, crashed>>

----------------------------------------------------------------------------
(* Bounds and inputs *)

NumSockets == 2

SocketIds == 1..NumSockets

\* The {username, room} pairs a client may send with 'join': a blank username,
\* an empty room, a name in a room, the same name and room in another case and
\* with spaces around, a second name in that room, the first name in a second
\* room.
JoinRequests ==
    { << <<" ">>, <<"R">> >>,
      << <<"A">>, <<>> >>,
      << <<"A">>, <<"R">> >>,
      << <<"a", " ">>, <<" ", "r">> >>,
      << <<"b">>, <<"R">> >>,
      << <<"A">>, <<"s">> >> }

\* Message texts and location payloads: one clean, one the filter rejects.
Texts == { <<"hi">>, <<"damn">> }

----------------------------------------------------------------------------
(* Strings *)

RECURSIVE trimStart(_)
trimStart(s) ==
    IF s # <<>> /\ Head(s) = " " THEN trimStart(Tail(s)) ELSE s

RECURSIVE trimEnd(_)
trimEnd(s) ==
    IF s # <<>> /\ s[Len(s)] = " " THEN trimEnd(SubSeq(s, 1, Len(s) - 1)) ELSE s

trim(s) == trimEnd(trimStart(s))

lowerChar(c) ==
    CASE c = "A" -> "a"
      [] c = "B" -> "b"
      [] c = "R" -> "r"
      [] c = "S" -> "s"
      [] OTHER -> c

RECURSIVE toLowerCase(_)
toLowerCase(s) ==
    IF s = <<>> THEN <<>> ELSE <<lowerChar(Head(s))>> \o toLowerCase(Tail(s))

----------------------------------------------------------------------------
(* ./utils/users: the registry, an array of users handled by free          *)
(* functions, as the design description gives it: addUser trims both       *)
(* fields, rejects an empty one, rejects a username that a user of the     *)
(* same room already holds (compared without case), and otherwise appends. *)
(* A room is one room whatever the case it is written in (getUsersInRoom   *)
(* matches without case), so the stored room name is the trimmed name in   *)
(* lower case; the stored username keeps its case.  Nothing in addUser     *)
(* looks at the id.                                                        *)

NoUser == [id |-> 0, username |-> <<>>, room |-> <<>>]

MissingField == <<"MissingField">>

UsernameTaken == <<"UsernameTaken">>

NoError == <<>>

\* Array.prototype.findIndex on the id: the first index whose user has the
\* id, 0 when there is none.
findIndex(us, id) ==
    IF \E i \in 1..Len(us) : us[i].id = id
    THEN CHOOSE i \in 1..Len(us) :
            us[i].id = id /\ \A j \in 1..(i - 1) : us[j].id # id
    ELSE 0

\* A variant of addUser: the username compared as written.
addUser_caseSensitive(us, id, username, room) ==
    LET u == trim(username)
        r == toLowerCase(trim(room))
    IN  IF u = <<>> \/ r = <<>>
        THEN [error |-> MissingField, user |-> NoUser, users |-> us]
        ELSE IF \E i \in 1..Len(us) : us[i].room = r /\ us[i].username = u
        THEN [error |-> UsernameTaken, user |-> NoUser, users |-> us]
        ELSE LET user == [id |-> id, username |-> u, room |-> r]
             IN  [error |-> NoError, user |-> user, users |-> Append(us, user)]

addUser(us, id, username, room) ==
    LET u == trim(username)
        r == toLowerCase(trim(room))
    IN  IF u = <<>> \/ r = <<>>
        THEN [error |-> MissingField, user |-> NoUser, users |-> us]
        ELSE IF \E i \in 1..Len(us) :
                    /\ us[i].room = r
                    /\ toLowerCase(us[i].username) = toLowerCase(u)
        THEN [error |-> UsernameTaken, user |-> NoUser, users |-> us]
        ELSE LET user == [id |-> id, username |-> u, room |-> r]
             IN  [error |-> NoError, user |-> user, users |-> Append(us, user)]

removeUser(us, id) ==
    LET i == findIndex(us, id)
    IN  IF i = 0
        THEN [user |-> NoUser, users |-> us]
        ELSE [user |-> us[i],
              users |-> SubSeq(us, 1, i - 1) \o SubSeq(us, i + 1, Len(us))]

getUser(us, id) ==
    LET i == findIndex(us, id)
    IN  IF i = 0 THEN NoUser ELSE us[i]

getUsersInRoom(us, room) ==
    LET r == toLowerCase(trim(room))
        inRoom(x) == x.room = r
    IN  SelectSeq(us, inRoom)

----------------------------------------------------------------------------
(* ./utils/messages and the profanity filter *)

system == <<"Chat App">>

\* The timestamp a message carries is left out: no handler reads it.
generateMessage(username, text) == [username |-> username, text |-> text]

generateLocation(username, location) == [username |-> username, text |-> location]

\* bad-words' Filter.isProfane, an opaque predicate of the text.
isProfane(message) == message = <<"damn">>

ProfanityError == <<"Profanity is not allowed.">>

----------------------------------------------------------------------------
(* socket.io, as the handlers use it (server.js, lines 1 to 10) *)

\* The sockets that have joined a room.
inRoom(rms, room) == { c \in SocketIds : room \in rms[c] }

\* socket.emit: the client of the socket alone.
socketEmit(c) == {c}

\* socket.broadcast.to(room): every client of the room but the socket's own.
broadcastTo(rms, c, room) == inRoom(rms, room) \ {c}

\* io.to(room): every client of the room.
ioTo(rms, room) == inRoom(rms, room)

\* socket.join(room)
socketJoin(rms, c, room) == [rms EXCEPT ![c] = @ \cup {room}]

\* A closing socket leaves all its rooms before its 'disconnect' event fires.
leaveAll(rms, c) == [rms EXCEPT ![c] = {}]

----------------------------------------------------------------------------
(* What a handler does, step by step.  One shape for every step:           *)
(*   op "addUser" / "removeUser": the registry gained / lost the user      *)
(*        (id in `to`, username, room);                                    *)
(*   op "join": the socket in `to` joined the socket.io room `room`;       *)
(*   op "emit": `event` was sent to the sockets in `to`, carrying          *)
(*        username and text (message, location) or room and users          *)
(*        (roomInfo);                                                      *)
(*   op "cb": the acknowledgement, to the socket in `to`, with the error   *)
(*        in text (NoError when cb is called without one).                 *)

Step(op, event, to, username, text, room, us) ==
    [op |-> op, event |-> event, to |-> to, username |-> username,
     text |-> text, room |-> room, users |-> us]

added(user) == Step("addUser", "", {user.id}, user.username, <<>>, user.room, <<>>)

removed(user) == Step("removeUser", "", {user.id}, user.username, <<>>, user.room, <<>>)

joined(c, room) == Step("join", "", {c}, <<>>, <<>>, room, <<>>)

emitMessage(to, m) == Step("emit", "message", to, m.username, m.text, <<>>, <<>>)

emitLocation(to, m) == Step("emit", "location", to, m.username, m.text, <<>>, <<>>)

emitRoomInfo(to, room, us) == Step("emit", "roomInfo", to, <<>>, <<>>, room, us)

cb(c, error) == Step("cb", "", {c}, <<>>, error, <<>>, <<>>)

\* What a handler leaves behind.
Done(us, rms, steps) == [users |-> us, rooms |-> rms, out |-> steps, crashed |-> FALSE]

\* A handler that threw: nothing catches it.
Thrown(us, rms, steps) == [users |-> us, rooms |-> rms, out |-> steps, crashed |-> TRUE]

----------------------------------------------------------------------------
(* The handlers of server.js *)

\* Variants of the join handler, each with one slip: the error of addUser not
\* checked (user.room of undefined); the error not passed to cb; the room
\* joined before addUser is asked; cb called before the events are sent; the
\* announcement sent with io.to, which reaches the joiner too.
onJoin_noErrorCheck(us, rms, c, username, room) ==
    LET res == addUser(us, c, username, room)
    IN  IF res.error # NoError
        THEN Thrown(res.users, rms, <<>>)
        ELSE LET user == res.user
                 rms2 == socketJoin(rms, c, user.room)
             IN  Done(res.users, rms2,
                      << added(user),
                         joined(c, user.room),
                         emitMessage(socketEmit(c),
                             generateMessage(system,
                                 <<"Welcome ">> \o toLowerCase(username) \o <<"!">>)),
                         emitMessage(broadcastTo(rms2, c, user.room),
                             generateMessage(system,
                                 user.username \o <<" has joined.">>)),
                         emitRoomInfo(ioTo(rms2, user.room), user.room,
                             getUsersInRoom(res.users, user.room)),
                         cb(c, NoError) >>)

onJoin_swallowError(us, rms, c, username, room) ==
    LET res == addUser(us, c, username, room)
    IN  IF res.error # NoError
        THEN Done(res.users, rms, << cb(c, NoError) >>)
        ELSE LET user == res.user
                 rms2 == socketJoin(rms, c, user.room)
             IN  Done(res.users, rms2,
                      << added(user),
                         joined(c, user.room),
                         emitMessage(socketEmit(c),
                             generateMessage(system,
                                 <<"Welcome ">> \o toLowerCase(username) \o <<"!">>)),
                         emitMessage(broadcastTo(rms2, c, user.room),
                             generateMessage(system,
                                 user.username \o <<" has joined.">>)),
                         emitRoomInfo(ioTo(rms2, user.room), user.room,
                             getUsersInRoom(res.users, user.room)),
                         cb(c, NoError) >>)

onJoin_joinFirst(us, rms, c, username, room) ==
    LET res == addUser(us, c, username, room)
    IN  IF res.error # NoError
        THEN Done(res.users, socketJoin(rms, c, toLowerCase(trim(room))),
                  << cb(c, res.error) >>)
        ELSE LET user == res.user
                 rms2 == socketJoin(rms, c, user.room)
             IN  Done(res.users, rms2,
                      << added(user),
                         joined(c, user.room),
                         emitMessage(socketEmit(c),
                             generateMessage(system,
                                 <<"Welcome ">> \o toLowerCase(username) \o <<"!">>)),
                         emitMessage(broadcastTo(rms2, c, user.room),
                             generateMessage(system,
                                 user.username \o <<" has joined.">>)),
                         emitRoomInfo(ioTo(rms2, user.room), user.room,
                             getUsersInRoom(res.users, user.room)),
                         cb(c, NoError) >>)

onJoin_ackFirst(us, rms, c, username, room) ==
    LET res == addUser(us, c, username, room)
    IN  IF res.error # NoError
        THEN Done(res.users, rms, << cb(c, res.error) >>)
        ELSE LET user == res.user
                 rms2 == socketJoin(rms, c, user.room)
             IN  Done(res.users, rms2,
                      << added(user),
                         joined(c, user.room),
                         cb(c, NoError),
                         emitMessage(socketEmit(c),
                             generateMessage(system,
                                 <<"Welcome ">> \o toLowerCase(username) \o <<"!">>)),
                         emitMessage(broadcastTo(rms2, c, user.room),
                             generateMessage(system,
                                 user.username \o <<" has joined.">>)),
                         emitRoomInfo(ioTo(rms2, user.room), user.room,
                             getUsersInRoom(res.users, user.room)) >>)

onJoin_announceToAll(us, rms, c, username, room) ==
    LET res == addUser(us, c, username, room)
    IN  IF res.error # NoError
        THEN Done(res.users, rms, << cb(c, res.error) >>)
        ELSE LET user == res.user
                 rms2 == socketJoin(rms, c, user.room)
             IN  Done(res.users, rms2,
                      << added(user),
                         joined(c, user.room),
                         emitMessage(socketEmit(c),
                             generateMessage(system,
                                 <<"Welcome ">> \o toLowerCase(username) \o <<"!">>)),
                         emitMessage(ioTo(rms2, user.room),
                             generateMessage(system,
                                 user.username \o <<" has joined.">>)),
                         emitRoomInfo(ioTo(rms2, user.room), user.room,
                             getUsersInRoom(res.users, user.room)),
                         cb(c, NoError) >>)

\* socket.on('join')
onJoin(us, rms, c, username, room) ==
    LET res == addUser(us, c, username, room)
    IN  IF res.error # NoError
        THEN Done(res.users, rms, << cb(c, res.error) >>)
        ELSE LET user == res.user
                 rms2 == socketJoin(rms, c, user.room)
             IN  Done(res.users, rms2,
                      << added(user),
                         joined(c, user.room),
                         emitMessage(socketEmit(c),
                             generateMessage(system,
                                 <<"Welcome ">> \o toLowerCase(username) \o <<"!">>)),
                         emitMessage(broadcastTo(rms2, c, user.room),
                             generateMessage(system,
                                 user.username \o <<" has joined.">>)),
                         emitRoomInfo(ioTo(rms2, user.room), user.room,
                             getUsersInRoom(res.users, user.room)),
                         cb(c, NoError) >>)

\* Variants of the sendMessage handler: the message sent with
\* socket.broadcast.to, which leaves the sender out; the filter not asked.
onSendMessage_broadcast(us, rms, c, message) ==
    LET user == getUser(us, c)
    IN  IF isProfane(message)
        THEN Done(us, rms, << cb(c, ProfanityError) >>)
        ELSE IF user = NoUser
        THEN Thrown(us, rms, <<>>)
        ELSE Done(us, rms,
                  << emitMessage(broadcastTo(rms, c, user.room),
                         generateMessage(user.username, message)),
                     cb(c, NoError) >>)

onSendMessage_noFilter(us, rms, c, message) ==
    LET user == getUser(us, c)
    IN  IF user = NoUser
        THEN Thrown(us, rms, <<>>)
        ELSE Done(us, rms,
                  << emitMessage(ioTo(rms, user.room),
                         generateMessage(user.username, message)),
                     cb(c, NoError) >>)

\* socket.on('sendMessage')
onSendMessage(us, rms, c, message) ==
    LET user == getUser(us, c)
    IN  IF isProfane(message)
        THEN Done(us, rms, << cb(c, ProfanityError) >>)
        ELSE IF user = NoUser
        THEN Thrown(us, rms, <<>>)      \* user.room of undefined
        ELSE Done(us, rms,
                  << emitMessage(ioTo(rms, user.room),
                         generateMessage(user.username, message)),
                     cb(c, NoError) >>)

\* A variant of the sendLocation handler: the filter of sendMessage copied in.
onSendLocation_filtered(us, rms, c, location) ==
    LET user == getUser(us, c)
    IN  IF isProfane(location)
        THEN Done(us, rms, << cb(c, ProfanityError) >>)
        ELSE IF user = NoUser
        THEN Thrown(us, rms, <<>>)
        ELSE Done(us, rms,
                  << emitLocation(ioTo(rms, user.room),
                         generateLocation(user.username, location)),
                     cb(c, NoError) >>)

\* A variant of the sendLocation handler: the lookup copied from the
\* disconnect handler, removeUser in place of getUser.
onSendLocation_removesUser(us, rms, c, location) ==
    LET res == removeUser(us, c)
        user == res.user
    IN  IF user = NoUser
        THEN Thrown(res.users, rms, <<>>)
        ELSE Done(res.users, rms,
                  << emitLocation(ioTo(rms, user.room),
                         generateLocation(user.username, location)),
                     cb(c, NoError) >>)

\* socket.on('sendLocation')
onSendLocation(us, rms, c, location) ==
    LET user == getUser(us, c)
    IN  IF user = NoUser
        THEN Thrown(us, rms, <<>>)      \* user.room of undefined
        ELSE Done(us, rms,
                  << emitLocation(ioTo(rms, user.room),
                         generateLocation(user.username, location)),
                     cb(c, NoError) >>)

\* A variant of the disconnect handler: the departure sent with io.emit, to
\* every connected client.
onDisconnect_ioEmit(us, rms, c) ==
    LET res == removeUser(us, c)
        user == res.user
        everyone == { d \in SocketIds \ {c} : sockets[d] = "open" }
    IN  IF user = NoUser
        THEN Done(res.users, rms, <<>>)
        ELSE Done(res.users, rms,
                  << removed(user),
                     emitMessage(everyone,
                         generateMessage(system,
                             user.username \o <<" has left the room.">>)),
                     emitRoomInfo(ioTo(rms, user.room), user.room,
                         getUsersInRoom(res.users, user.room)) >>)

\* socket.on('disconnect')
onDisconnect(us, rms, c) ==
    LET res == removeUser(us, c)
        user == res.user
    IN  IF user = NoUser
        THEN Done(res.users, rms, <<>>)
        ELSE Done(res.users, rms,
                  << removed(user),
                     emitMessage(ioTo(rms, user.room),
                         generateMessage(system,
                             user.username \o <<" has left the room.">>)),
                     emitRoomInfo(ioTo(rms, user.room), user.room,
                         getUsersInRoom(res.users, user.room)) >>)

----------------------------------------------------------------------------
(* The state machine *)

Event(handler, c, username, room, text) ==
    [handler |-> handler, id |-> c, username |-> username, room |-> room,
     text |-> text]

Init ==
    /\ sockets = [c \in SocketIds |-> "none"]
    /\ users = <<>>
    /\ rooms = [c \in SocketIds |-> {}]
    /\ last = Event("none", 0, <<>>, <<>>, <<>>)
    /\ out = <<>>
    /\ crashed = FALSE

\* The state a handler leaves.
Handled(h) ==
    /\ users' = h.users
    /\ rooms' = h.rooms
    /\ out' = h.out
    /\ crashed' = h.crashed

\* io.on('connection'): a client connects and its handlers are registered.
Connect(c) ==
    /\ ~crashed
    /\ sockets[c] = "none"
    /\ sockets' = [sockets EXCEPT ![c] = "open"]
    /\ last' = Event("connection", c, <<>>, <<>>, <<>>)
    /\ out' = <<>>
    /\ UNCHANGED <<users, rooms, crashed>>

Join(c, username, room) ==
    /\ ~crashed
    /\ sockets[c] = "open"
    /\ last' = Event("join", c, username, room, <<>>)
    /\ Handled(onJoin(users, rooms, c, username, room))
    /\ UNCHANGED sockets

SendMessage(c, message) ==
    /\ ~crashed
    /\ sockets[c] = "open"
    /\ last' = Event("sendMessage", c, <<>>, <<>>, message)
    /\ Handled(onSendMessage(users, rooms, c, message))
    /\ UNCHANGED sockets

SendLocation(c, location) ==
    /\ ~crashed
    /\ sockets[c] = "open"
    /\ last' = Event("sendLocation", c, <<>>, <<>>, location)
    /\ Handled(onSendLocation(users, rooms, c, location))
    /\ UNCHANGED sockets

\* The transport closes the socket: it leaves its rooms, then 'disconnect' fires.
Disconnect(c) ==
    /\ ~crashed
    /\ sockets[c] = "open"
    /\ sockets' = [sockets EXCEPT ![c] = "closed"]
    /\ last' = Event("disconnect", c, <<>>, <<>>, <<>>)
    /\ Handled(onDisconnect(users, leaveAll(rooms, c), c))

Next ==
    \/ \E c \in SocketIds : Connect(c)
    \/ \E c \in SocketIds, j \in JoinRequests : Join(c, j[1], j[2])
    \/ \E c \in SocketIds, message \in Texts : SendMessage(c, message)
    \/ \E c \in SocketIds, location \in Texts : SendLocation(c, location)
    \/ \E c \in SocketIds : Disconnect(c)

Spec == Init /\ [][Next]_vars

----------------------------------------------------------------------------
(* Vocabulary of the properties *)

\* Two usernames, or two room names, are the same once trimmed, whatever the case.
sameName(a, b) == toLowerCase(trim(a)) = toLowerCase(trim(b))

\* The connections that are members of a room: the live sockets the registry
\* holds a user of that room for.
members(room) ==
    { c \in SocketIds :
        /\ sockets[c] = "open"
        /\ \E i \in 1..Len(users) : users[i].id = c /\ sameName(users[i].room, room) }

\* The steps of `steps` that satisfy op and event.
stepsOf(steps, op, event) ==
    { i \in 1..Len(steps) : steps[i].op = op /\ steps[i].event = event }

\* The handler acknowledged, and with this error.
acked(steps, c, error) ==
    /\ stepsOf(steps, "cb", "") # {}
    /\ \A i \in stepsOf(steps, "cb", "") : steps[i] = cb(c, error)

joinSucceeded == last.handler = "join" /\ acked(out, last.id, NoError)

joinFailed == last.handler = "join" /\ ~acked(out, last.id, NoError)

----------------------------------------------------------------------------
(* C1: in every reachable state the registry holds at most one user for    *)
(* each pair of a room and a username, usernames compared trimmed and      *)
(* without case.                                                           *)
C1_UniqueNameInRoom ==
    \A i, j \in 1..Len(users) :
        (i # j /\ sameName(users[i].room, users[j].room))
            => ~sameName(users[i].username, users[j].username)

\* A join under another spelling of a name held in the room was refused, and
\* the room has two users.
C1_Witness ==
    /\ last.handler = "join"
    /\ acked(out, last.id, UsernameTaken)
    /\ \E i \in 1..Len(users) :
            /\ sameName(users[i].room, last.room)
            /\ sameName(users[i].username, last.username)
            /\ users[i].username # trim(last.username)
    /\ Len(getUsersInRoom(users, last.room)) >= 2

(* C2: when two different connections send join with the same room and the *)
(* same username (without case), one right after the other, at most one of *)
(* the two is acknowledged with success, the registry holds at most one    *)
(* user for that room and name, and the later one is acknowledged with     *)
(* UsernameTaken.                                                          *)
C2_ConcurrentJoins ==
    [][ ( /\ last.handler = "join"
          /\ last'.handler = "join"
          /\ last.id # last'.id
          /\ sameName(last.username, last'.username)
          /\ sameName(last.room, last'.room)
          /\ trim(last.username) # <<>>
          /\ trim(last.room) # <<>> )
        => /\ ~(acked(out, last.id, NoError) /\ acked(out', last'.id, NoError))
           /\ out' = << cb(last'.id, UsernameTaken) >>
           /\ Cardinality({ i \in 1..Len(users') :
                                /\ sameName(users'[i].room, last'.room)
                                /\ sameName(users'[i].username, last'.username) }) = 1
      ]_vars

\* The second of two such joins: refused, the name being held by the user the
\* other connection just added.
C2_Witness ==
    /\ last.handler = "join"
    /\ out = << cb(last.id, UsernameTaken) >>
    /\ users # <<>>
    /\ LET u == users[Len(users)]
       IN  /\ u.id # last.id
           /\ sameName(u.room, last.room)
           /\ sameName(u.username, last.username)

(* C3: in every reachable state each connection owns at most one user of   *)
(* the registry, also when a connection sends join more than once.         *)
C3_OneUserPerConnection ==
    \A i, j \in 1..Len(users) : users[i].id = users[j].id => i = j

(* C4: the outcome of a join is decided by the trimmed username and room   *)
(* and the registry as the join finds it: MissingField when either is      *)
(* empty once trimmed; otherwise UsernameTaken exactly when a user of the  *)
(* same room holds the same username without case; otherwise success, the  *)
(* new user appended.  A username held in one room is accepted in another. *)
C4_JoinOutcome ==
    [][ last'.handler = "join" =>
        LET c == last'.id
            u == trim(last'.username)
            r == trim(last'.room)
            held == \E i \in 1..Len(users) :
                        /\ sameName(users[i].room, r)
                        /\ sameName(users[i].username, u)
        IN  IF u = <<>> \/ r = <<>>
            THEN out' = << cb(c, MissingField) >>
            ELSE IF held
            THEN out' = << cb(c, UsernameTaken) >>
            ELSE /\ acked(out', c, NoError)
                 /\ Len(users') = Len(users) + 1
                 /\ SubSeq(users', 1, Len(users)) = users
                 /\ users'[Len(users')].id = c
                 /\ users'[Len(users')].username = u
                 /\ sameName(users'[Len(users')].room, r)
      ]_vars

\* A join succeeded under a name that a user of another room holds.
C4_Witness ==
    /\ joinSucceeded
    /\ users[Len(users)].id = last.id
    /\ \E i \in 1..(Len(users) - 1) :
            /\ sameName(users[i].username, last.username)
            /\ ~sameName(users[i].room, last.room)

(* C5: a join that fails acknowledges its own connection with the error    *)
(* (MissingField or UsernameTaken) and does nothing else: no event is      *)
(* sent, the registry and every socket's rooms are as before, and the      *)
(* connection stays as it was, so a later join of it with a valid name     *)
(* that is free in its room succeeds.                                      *)
C5_FailedJoin ==
    [][ (last'.handler = "join" /\ ~acked(out', last'.id, NoError)) =>
        /\ \E e \in {MissingField, UsernameTaken} : out' = << cb(last'.id, e) >>
        /\ users' = users
        /\ rooms' = rooms
        /\ sockets' = sockets
        /\ ~crashed'
        /\ \A j \in JoinRequests :
              ( /\ trim(j[1]) # <<>>
                /\ trim(j[2]) # <<>>
                /\ \A i \in 1..Len(users') :
                      ~(sameName(users'[i].room, j[2]) /\ sameName(users'[i].username, j[1])) )
              => acked(onJoin(users', rooms', last'.id, j[1], j[2]).out, last'.id, NoError)
      ]_vars

\* A connection with no user was refused for a blank username, in a room that
\* has members.
C5_Witness ==
    /\ last.handler = "join"
    /\ out = << cb(last.id, MissingField) >>
    /\ trim(last.room) # <<>>
    /\ getUser(users, last.id) = NoUser
    /\ members(last.room) # {}

(* C6: a join that succeeds does, in this order and once each: the insert  *)
(* of the user in the registry, the welcome message, the announcement that *)
(* the user has joined, the roomInfo event, and last of all the            *)
(* acknowledgement of success.                                             *)
welcomeText == <<"Welcome ">> \o toLowerCase(last.username) \o <<"!">>

joinedText == trim(last.username) \o <<" has joined.">>

C6_JoinOrder ==
    joinSucceeded =>
        /\ Cardinality(stepsOf(out, "addUser", "")) = 1
        /\ Cardinality(stepsOf(out, "emit", "message")) = 2
        /\ Cardinality(stepsOf(out, "emit", "roomInfo")) = 1
        /\ Cardinality(stepsOf(out, "cb", "")) = 1
        /\ \E a, w, n, r \in 1..Len(out) :
              /\ a < w /\ w < n /\ n < r /\ r < Len(out)
              /\ out[a].op = "addUser"
              /\ out[a].to = {last.id}
              /\ out[w].op = "emit" /\ out[w].event = "message"
              /\ out[w].text = welcomeText
              /\ out[n].op = "emit" /\ out[n].event = "message"
              /\ out[n].text = joinedText
              /\ out[r].op = "emit" /\ out[r].event = "roomInfo"
              /\ out[Len(out)] = cb(last.id, NoError)

\* A join succeeded in a room with members: the announcement had receivers.
C6_Witness ==
    /\ joinSucceeded
    /\ \E n \in stepsOf(out, "emit", "message") :
            out[n].text = joinedText /\ out[n].to # {}

(* C7: on a successful join of connection c to room R, the welcome is      *)
(* delivered to c and to no one else; the announcement is delivered to     *)
(* every member of R other than c and not to c; the roomInfo event is      *)
(* delivered to every member of R, c included.                             *)
C7_JoinTargets ==
    joinSucceeded =>
        /\ last.id \in members(last.room)
        /\ \A i \in stepsOf(out, "emit", "message") :
              /\ out[i].text = welcomeText => out[i].to = {last.id}
              /\ out[i].text = joinedText => out[i].to = members(last.room) \ {last.id}
              /\ out[i].text \in {welcomeText, joinedText}
        /\ \A i \in stepsOf(out, "emit", "roomInfo") :
              out[i].to = members(last.room)

\* A join succeeded in a room that had a member already.
C7_Witness ==
    /\ joinSucceeded
    /\ Cardinality(members(last.room)) >= 2
    /\ \E i \in stepsOf(out, "emit", "roomInfo") : Cardinality(out[i].to) >= 2

(* C8: when a connection c that has a user (username u, room R; the user   *)
(* getUser finds for c) sends a message the filter accepts, one message    *)
(* event with sender u and that text is delivered to every member of R, c  *)
(* included, and c is then acknowledged with success.                      *)
C8_SendMessage ==
    ( /\ last.handler = "sendMessage"
      /\ ~isProfane(last.text)
      /\ getUser(users, last.id) # NoUser )
    => LET user == getUser(users, last.id)
       IN  /\ last.id \in members(user.room)
           /\ out = << emitMessage(members(user.room),
                           generateMessage(user.username, last.text)),
                       cb(last.id, NoError) >>

\* A message went to a room of two members.
C8_Witness ==
    /\ last.handler = "sendMessage"
    /\ stepsOf(out, "emit", "message") # {}
    /\ \A i \in stepsOf(out, "emit", "message") :
            out[i].to = SocketIds /\ out[i].text = last.text

(* C9: when sendMessage carries a text the profanity filter rejects, the   *)
(* sender is acknowledged with 'Profanity is not allowed.', no event is    *)
(* delivered to anyone, and the registry is as before.                     *)
C9_Profanity ==
    [][ (last'.handler = "sendMessage" /\ isProfane(last'.text)) =>
        /\ out' = << cb(last'.id, ProfanityError) >>
        /\ users' = users
        /\ rooms' = rooms
      ]_vars

\* A member of a room of two sent a rejected text.
C9_Witness ==
    /\ last.handler = "sendMessage"
    /\ isProfane(last.text)
    /\ out = << cb(last.id, ProfanityError) >>
    /\ getUser(users, last.id) # NoUser
    /\ Cardinality(members(getUser(users, last.id).room)) >= 2

(* C10: when a connection c that has a user (the user getUser finds for c, *)
(* in room R) sends a location, a location event under that user's name is *)
(* delivered to every member of R, c included, whatever the payload, and c *)
(* is acknowledged with success.                                           *)
C10_SendLocation ==
    ( /\ last.handler = "sendLocation"
      /\ getUser(users, last.id) # NoUser )
    => LET user == getUser(users, last.id)
       IN  /\ last.id \in members(user.room)
           /\ out = << emitLocation(members(user.room),
                           generateLocation(user.username, last.text)),
                       cb(last.id, NoError) >>

\* A payload the message filter would reject went to a room of two members.
C10_Witness ==
    /\ last.handler = "sendLocation"
    /\ isProfane(last.text)
    /\ stepsOf(out, "emit", "location") # {}
    /\ \A i \in stepsOf(out, "emit", "location") :
            out[i].to = SocketIds /\ out[i].text = last.text

(* C11: a sendMessage or sendLocation received on a connection that has no *)
(* user is a no-op: it is answered with the error NotJoined, no event is   *)
(* delivered to anyone, and the registry is as before.                     *)
NotJoined == <<"NotJoined">>

C11_NotJoinedNoOp ==
    [][ ( /\ last'.handler \in {"sendMessage", "sendLocation"}
          /\ getUser(users, last'.id) = NoUser )
        => /\ out' = << cb(last'.id, NotJoined) >>
           /\ users' = users
           /\ ~crashed'
      ]_vars

(* C12: failures stay with their connection: the server is never halted,   *)
(* whatever a connection sent out of order, and every live connection can  *)
(* still have its events handled.                                          *)
C12_FailuresIsolated ==
    /\ ~crashed
    /\ \A c \in SocketIds :
          sockets[c] = "open" =>
              /\ ENABLED Join(c, <<"A">>, <<"R">>)
              /\ ENABLED SendLocation(c, <<"hi">>)
              /\ ENABLED Disconnect(c)

(* C13: when a connection c that has a user of room R disconnects, the     *)
(* user is removed first, and then a departure message followed by a       *)
(* roomInfo event whose list of users does not hold c are delivered to     *)
(* every connection that remains a member of R, to no other connection,    *)
(* and not to c.                                                           *)
membersOf(sks, us, room) ==
    { c \in SocketIds :
        /\ sks[c] = "open"
        /\ \E i \in 1..Len(us) : us[i].id = c /\ sameName(us[i].room, room) }

C13_Disconnect ==
    [][ ( /\ last'.handler = "disconnect"
          /\ getUser(users, last'.id) # NoUser )
        => LET c == last'.id
               user == getUser(users, c)
               remaining == membersOf(sockets', users', user.room)
           IN  /\ Len(out') = 3
               /\ out'[1] = removed(user)
               /\ out'[2] = emitMessage(remaining,
                                generateMessage(system,
                                    user.username \o <<" has left the room.">>))
               /\ out'[3].op = "emit" /\ out'[3].event = "roomInfo"
               /\ out'[3].to = remaining
               /\ c \notin remaining
               /\ \A k \in 1..Len(out'[3].users) : out'[3].users[k].id # c
      ]_vars

(* C14: disconnect is silent without a user and idempotent: handled for a  *)
(* connection that has no user in the registry, it delivers no event and   *)
(* leaves the registry as it was; and once it has been handled for a       *)
(* connection, handling it again for that connection does nothing, so that *)
(* there is one departure broadcast, not two.                              *)
C14_DisconnectIdempotent ==
    [][ last'.handler = "disconnect" =>
        /\ getUser(users, last'.id) = NoUser => (out' = <<>> /\ users' = users)
        /\ onDisconnect(users', rooms', last'.id) = Done(users', rooms', <<>>)
      ]_vars

(* C15: closed is final: once disconnect has been handled for a            *)
(* connection, the registry holds no user with its id and no roomInfo      *)
(* event lists it, in every later state.                                   *)
C15_ClosedIsTerminal ==
    \A c \in SocketIds :
        sockets[c] = "closed" =>
            /\ \A i \in 1..Len(users) : users[i].id # c
            /\ \A s \in stepsOf(out, "emit", "roomInfo") :
                  \A k \in 1..Len(out[s].users) : out[s].users[k].id # c

(* C16: every join, sendMessage and sendLocation event is acknowledged     *)
(* once and only once, to the connection that sent it, whatever path the   *)
(* handler takes.                                                          *)
C16_AckedOnce ==
    last.handler \in {"join", "sendMessage", "sendLocation"} =>
        /\ Cardinality(stepsOf(out, "cb", "")) = 1
        /\ \A i \in stepsOf(out, "cb", "") : out[i].to = {last.id}

(* C17: a user does not change once created: from the join that made it   *)
(* to the disconnect of its connection, the user of a connection keeps its *)
(* username and room and its record stays in the registry; sendMessage,    *)
(* sendLocation and failed joins leave the whole registry as it was.       *)
C17_UserImmutable ==
    [][ /\ \A c \in SocketIds :
              ( /\ getUser(users, c) # NoUser
                /\ ~(last'.handler = "disconnect" /\ last'.id = c) )
              => getUser(users', c) = getUser(users, c)
        /\ \A i \in 1..Len(users) :
              ~(last'.handler = "disconnect" /\ last'.id = users[i].id)
              => \E k \in 1..Len(users') : users'[k] = users[i]
        /\ ( \/ last'.handler \in {"sendMessage", "sendLocation"}
             \/ (last'.handler = "join" /\ ~acked(out', last'.id, NoError)) )
           => users' = users
      ]_vars

\* A connection with a user sent a location to its room while the other
\* connection has a user too.
C17_Witness ==
    /\ last.handler = "sendLocation"
    /\ acked(out, last.id, NoError)
    /\ getUser(users, last.id) # NoUser
    /\ \E d \in SocketIds \ {last.id} : getUser(users, d) # NoUser

(* C18: the sockets of a socket.io room are the connections of the room in *)
(* the registry: a connection has joined socket.io room R exactly when the *)
(* registry holds a user with its id and room R; no connection has joined  *)
(* two rooms, and none that has joined a room lacks a record.              *)
C18_RoomsMatchRegistry ==
    \A c \in SocketIds :
        /\ \A i \in 1..Len(users) : users[i].id = c => users[i].room \in rooms[c]
        /\ \A r \in rooms[c] : \E i \in 1..Len(users) : users[i].id = c /\ users[i].room = r
        /\ Cardinality(rooms[c]) <= 1

(* C19: rooms are isolated: whatever the events, a message, location or    *)
(* roomInfo event emitted for a room is delivered only to connections that *)
(* are members of that room when it is emitted, never to a member of       *)
(* another room only, a connection that has not joined, or one that has    *)
(* disconnected.                                                           *)
emittedRoom ==
    CASE last.handler = "join" -> toLowerCase(trim(last.room))
      [] last.handler \in {"sendMessage", "sendLocation"} -> getUser(users, last.id).room
      [] last.handler = "disconnect" /\ out # <<>> -> out[1].room
      [] OTHER -> <<>>

C19_RoomIsolation ==
    \A s \in 1..Len(out) :
        out[s].op = "emit" =>
            /\ out[s].to \subseteq members(emittedRoom)
            /\ out[s].event = "roomInfo" => out[s].room = emittedRoom

\* A message was delivered in a room while a live connection is a member of
\* another room only.
C19_Witness ==
    /\ last.handler = "sendMessage"
    /\ \E s \in stepsOf(out, "emit", "message") : out[s].to = {last.id}
    /\ \E d \in SocketIds \ {last.id} :
            /\ sockets[d] = "open"
            /\ getUser(users, d) # NoUser
            /\ d \notin members(emittedRoom)

(* C20: the members of a room see its membership as it is: every roomInfo  *)
(* event for a room carries exactly the users registered in the room when  *)
(* it is emitted, who are the room's members; and every change of a room's *)
(* membership is followed, in the same handler, by a roomInfo event to the *)
(* room's members, so that between handlers the last roomInfo a member     *)
(* received lists the room's current members.                              *)
roomsOf(us) == { us[i].room : i \in 1..Len(us) }

userIds(us) == { us[i].id : i \in 1..Len(us) }

C20_ConsistentView ==
    [][ /\ \A s \in stepsOf(out', "emit", "roomInfo") :
              /\ out'[s].users = getUsersInRoom(users', out'[s].room)
              /\ userIds(out'[s].users) = membersOf(sockets', users', out'[s].room)
              /\ out'[s].to = membersOf(sockets', users', out'[s].room)
        /\ \A r \in roomsOf(users) \cup roomsOf(users') :
              membersOf(sockets, users, r) # membersOf(sockets', users', r)
              => \E s \in stepsOf(out', "emit", "roomInfo") : out'[s].room = r
      ]_vars

====
